---- MODULE Spec2Model ----
(***************************************************************************)
(* H264TcpSource: a background worker that connects to a TCP server, reads *)
(* an H.264 elementary stream in AVCC (length-prefixed) or Annex-B         *)
(* (start-code) framing, groups NAL units into access units and hands each *)
(* to a callback; a controller thread calls start() / stop() / destructor. *)
(* EncodedVideoSource: the sink that main's callback pushes each access    *)
(* unit to.                                                                *)
(*                                                                         *)
(* Byte offsets are 0-based as in the source: At(buf, i) is buf[i].        *)
(***************************************************************************)
EXTENDS Integers, Sequences, FiniteSets, TLC

\* ------------------------------------------------------------------ bounds
\* Largest number of bytes the peer sends on one connection when it sends
\* whole framed units.
MaxStream == 15

\* Largest number of bytes the peer sends when it sends arbitrary bytes.
MaxRaw == 9

\* Largest number of bytes the peer sends when it sends start codes and
\* single bytes in any order.
MaxAny == 11

\* Largest number of unread arbitrary bytes on the connection.
MaxRawWire == 4

\* Largest number of unread bytes of framed units on the connection.
MaxWire == 6

\* Largest number of bytes the peer sends on one connection while the
\* controller exercises the whole lifecycle.
MaxLife == 12

\* Largest number of start()/stop()/destructor calls the controller makes.
MaxCalls == 3

\* Largest number of captureEncodedFrame calls.
MaxCaptures == 4

\* ------------------------------------------------------- program constants
\* kMaxNalSize = 4 * 1024 * 1024 = 64 * 65536, kept as its two 16-bit halves
\* (see U32).
kMaxNalSize == [hi |-> 64, lo |-> 0]

kReadChunkSize == 65536

kStartCode == <<0, 0, 0, 1>>

\* ------------------------------------------------------------ byte helpers
At(buf, i) == buf[i + 1]

Min(a, b) == IF a < b THEN a ELSE b

\* v.erase(v.begin(), v.begin() + n)
Erase(buf, n) == SubSeq(buf, n + 1, Len(buf))

\* the first n elements of buf
Take(buf, n) == SubSeq(buf, 1, n)

\* the n bytes of buf starting at 0-based offset start
Slice(buf, start, n) == SubSeq(buf, start + 1, start + n)

\* data[0] & 0x1f
NalType(nal) == nal[1] % 32

isVclNalOnlySlice(nal) ==
  IF Len(nal) < 1 THEN FALSE ELSE NalType(nal) = 1

isVclNal(nal) ==
  IF Len(nal) < 1 THEN FALSE ELSE NalType(nal) = 1 \/ NalType(nal) = 5

isIdrNal(nal) ==
  IF Len(nal) < 1 THEN FALSE ELSE NalType(nal) = 5

\* ------------------------------------------------------------ findStartCode
NoStartCode == [found |-> FALSE, offset |-> 0, size |-> 0]

\* A variant that knows the 3-byte start code only.
RECURSIVE findStartCodeOnly3(_, _)
findStartCodeOnly3(buf, start) ==
  IF ~(start + 3 < Len(buf)) THEN NoStartCode
  ELSE IF At(buf, start) = 0 /\ At(buf, start + 1) = 0
          /\ At(buf, start + 2) = 1
       THEN [found |-> TRUE, offset |-> start, size |-> 3]
  ELSE findStartCodeOnly3(buf, start + 1)

\* A variant whose loop bound admits a 3-byte start code that ends the buffer.
RECURSIVE findStartCodeShortBound(_, _)
findStartCodeShortBound(buf, start) ==
  IF ~(start + 2 < Len(buf)) THEN NoStartCode
  ELSE IF At(buf, start) = 0 /\ At(buf, start + 1) = 0
          /\ At(buf, start + 2) = 1
       THEN [found |-> TRUE, offset |-> start, size |-> 3]
  ELSE IF At(buf, start) = 0 /\ At(buf, start + 1) = 0
          /\ start + 4 < Len(buf)
          /\ At(buf, start + 2) = 0 /\ At(buf, start + 3) = 1
       THEN [found |-> TRUE, offset |-> start, size |-> 4]
  ELSE findStartCodeShortBound(buf, start + 1)

\* for (i = start; i + 3 < buf.size(); ++i): the first 00 00 01 (size 3) or
\* 00 00 00 01 (size 4, only when i + 4 < buf.size()) at or after start.
RECURSIVE findStartCode(_, _)
findStartCode(buf, start) ==
  IF ~(start + 3 < Len(buf)) THEN NoStartCode
  ELSE IF At(buf, start) = 0 /\ At(buf, start + 1) = 0
          /\ At(buf, start + 2) = 1
       THEN [found |-> TRUE, offset |-> start, size |-> 3]
  ELSE IF At(buf, start) = 0 /\ At(buf, start + 1) = 0
          /\ start + 4 < Len(buf)
          /\ At(buf, start + 2) = 0 /\ At(buf, start + 3) = 1
       THEN [found |-> TRUE, offset |-> start, size |-> 4]
  ELSE findStartCode(buf, start + 1)

\* ---------------------------------------------------------- emit_access_unit
\* The assembler state a is [access_unit, has_idr, out]; out is the sequence
\* of access units handed to callback_ so far, each [data, is_keyframe].

\* A variant that does not empty access_unit after an emission.
emit_access_unitNoClear(a, nal, is_vcl) ==
  LET au  == a.access_unit \o kStartCode \o nal
      idr == a.has_idr \/ isIdrNal(nal)
  IN IF ~is_vcl
     THEN [access_unit |-> au, has_idr |-> idr, out |-> a.out]
     ELSE [access_unit |-> au, has_idr |-> FALSE,
           out |-> Append(a.out, [data |-> au, is_keyframe |-> idr])]

\* A variant that leaves has_idr set after an emission.
emit_access_unitKeepIdr(a, nal, is_vcl) ==
  LET au  == a.access_unit \o kStartCode \o nal
      idr == a.has_idr \/ isIdrNal(nal)
  IN IF ~is_vcl
     THEN [access_unit |-> au, has_idr |-> idr, out |-> a.out]
     ELSE [access_unit |-> <<>>, has_idr |-> idr,
           out |-> Append(a.out, [data |-> au, is_keyframe |-> idr])]

emit_access_unit(a, nal, is_vcl) ==
  LET au  == a.access_unit \o kStartCode \o nal
      idr == a.has_idr \/ isIdrNal(nal)
  IN IF ~is_vcl
     THEN [access_unit |-> au, has_idr |-> idr, out |-> a.out]
     ELSE [access_unit |-> <<>>, has_idr |-> FALSE,
           out |-> Append(a.out, [data |-> au, is_keyframe |-> idr])]

\* ------------------------------------------------------- Annex-B chunk scan
\* A variant of the scan that hands the bytes before the first start code to
\* the assembler as a NAL instead of dropping them.
RECURSIVE AnnexBScanLeadingNal(_)
AnnexBScanLeadingNal(s) ==
  LET sc == findStartCode(s.buf, s.parse_pos)
  IN IF ~sc.found THEN s
     ELSE IF s.parse_pos = 0 /\ sc.offset > 0
     THEN AnnexBScanLeadingNal(
            [buf |-> Erase(s.buf, sc.offset),
             parse_pos |-> 0,
             asm |-> emit_access_unit(s.asm, Take(s.buf, sc.offset),
                                      isVclNal(Take(s.buf, sc.offset)))])
     ELSE LET next_start == sc.offset + sc.size
              next_sc    == findStartCode(s.buf, next_start)
          IN IF ~next_sc.found THEN s
             ELSE LET nal_start == sc.offset + sc.size
                      nal_size  == next_sc.offset - nal_start
                      nal_data  == Slice(s.buf, nal_start, nal_size)
                      asm1 == IF nal_size > 0
                              THEN emit_access_unit(s.asm, nal_data,
                                                    isVclNal(nal_data))
                              ELSE s.asm
                  IN AnnexBScanLeadingNal([buf |-> s.buf,
                                           parse_pos |-> next_sc.offset,
                                           asm |-> asm1])

\* A variant of the scan without the nal_size > 0 test.
RECURSIVE AnnexBScanNoSizeTest(_)
AnnexBScanNoSizeTest(s) ==
  LET sc == findStartCode(s.buf, s.parse_pos)
  IN IF ~sc.found THEN s
     ELSE IF s.parse_pos = 0 /\ sc.offset > 0
     THEN AnnexBScanNoSizeTest([s EXCEPT !.buf = Erase(s.buf, sc.offset)])
     ELSE LET next_start == sc.offset + sc.size
              next_sc    == findStartCode(s.buf, next_start)
          IN IF ~next_sc.found THEN s
             ELSE LET nal_start == sc.offset + sc.size
                      nal_size  == next_sc.offset - nal_start
                      nal_data  == Slice(s.buf, nal_start, nal_size)
                  IN AnnexBScanNoSizeTest(
                       [buf |-> s.buf,
                        parse_pos |-> next_sc.offset,
                        asm |-> emit_access_unit(s.asm, nal_data,
                                                 isVclNal(nal_data))])

\* The inner while loop of the Annex-B branch over s = [buf, parse_pos, asm].
RECURSIVE AnnexBScan(_)
AnnexBScan(s) ==
  LET sc == findStartCode(s.buf, s.parse_pos)
  IN IF ~sc.found THEN s
     ELSE IF s.parse_pos = 0 /\ sc.offset > 0
     THEN AnnexBScan([s EXCEPT !.buf = Erase(s.buf, sc.offset)])
     ELSE LET next_start == sc.offset + sc.size
              next_sc    == findStartCode(s.buf, next_start)
          IN IF ~next_sc.found THEN s
             ELSE LET nal_start == sc.offset + sc.size
                      nal_size  == next_sc.offset - nal_start
                      nal_data  == Slice(s.buf, nal_start, nal_size)
                      asm1 == IF nal_size > 0
                              THEN emit_access_unit(s.asm, nal_data,
                                                    isVclNal(nal_data))
                              ELSE s.asm
                  IN AnnexBScan([buf |-> s.buf,
                                 parse_pos |-> next_sc.offset,
                                 asm |-> asm1])

\* A variant that erases one byte less than was consumed.
AnnexBChunkEraseShort(buf, asm, chunk) ==
  LET s == AnnexBScan([buf |-> buf \o chunk, parse_pos |-> 0, asm |-> asm])
  IN [buf |-> IF s.parse_pos > 0 THEN Erase(s.buf, s.parse_pos - 1)
              ELSE s.buf,
      asm |-> s.asm]

\* A variant that does not erase the consumed front of the accumulator.
AnnexBChunkNoErase(buf, asm, chunk) ==
  LET s == AnnexBScan([buf |-> buf \o chunk, parse_pos |-> 0, asm |-> asm])
  IN [buf |-> s.buf, asm |-> s.asm]

\* One pass of the Annex-B loop body after recv returned chunk: append, scan,
\* erase the consumed front.  Returns [buf, asm].
AnnexBChunk(buf, asm, chunk) ==
  LET s == AnnexBScan([buf |-> buf \o chunk, parse_pos |-> 0, asm |-> asm])
  IN [buf |-> IF s.parse_pos > 0 THEN Erase(s.buf, s.parse_pos) ELSE s.buf,
      asm |-> s.asm]

\* ------------------------------------------------------------- AVCC length
\* nalLen = lenBuf[0] << 24 | lenBuf[1] << 16 | lenBuf[2] << 8 | lenBuf[3],
\* an unsigned 32-bit value kept as its two 16-bit halves: hi * 65536 + lo.
U32(lenBuf) == [hi |-> lenBuf[1] * 256 + lenBuf[2],
                lo |-> lenBuf[3] * 256 + lenBuf[4]]

U32Gt(x, y) == x.hi > y.hi \/ (x.hi = y.hi /\ x.lo > y.lo)

\* filled < nalLen, for a filled below 65536
FilledLess(filled, len) == len.hi > 0 \/ filled < len.lo

\* the largest n with n <= nalLen - filled and n <= avail
PayloadRoom(filled, len, avail) ==
  IF len.hi > 0 THEN avail ELSE Min(avail, len.lo - filled)

\* A variant that also rejects kMaxNalSize itself.
nalLenInvalidGe(len) ==
  (len.hi = 0 /\ len.lo = 0) \/ U32Gt(len, kMaxNalSize) \/ len = kMaxNalSize

\* nalLen == 0 || nalLen > kMaxNalSize
nalLenInvalid(len) ==
  (len.hi = 0 /\ len.lo = 0) \/ U32Gt(len, kMaxNalSize)

\* The AVCC branch of loop() over the bytes s when every recv is satisfied
\* in full, from assembler state a: [asm, rest], rest being the bytes of the
\* record it stopped in (an incomplete one, or an invalid length).
RECURSIVE AvccFullReads(_, _)
AvccFullReads(s, a) ==
  IF Len(s) < 4 THEN [asm |-> a, rest |-> s]
  ELSE LET len == U32(Take(s, 4))
       IN IF nalLenInvalid(len) THEN [asm |-> a, rest |-> Take(s, 4)]
          ELSE IF FilledLess(Len(s) - 4, len) THEN [asm |-> a, rest |-> s]
          ELSE LET payload == Slice(s, 4, len.lo)
               IN AvccFullReads(Erase(s, 4 + len.lo),
                                emit_access_unit(a, payload,
                                                 isVclNal(payload)))

\* ------------------------------------------------------------------- state
VARIABLES
  framing_,         \* "Avcc" or "AnnexB", fixed at construction
  reachable,        \* environment: does connectTcp(host_, port_) succeed
  running_,         \* std::atomic<bool> running_
  thread_joinable,  \* thread_.joinable()
  ctl,              \* where the controller thread is
  calls,            \* history: the calls the controller has made, in order
  launched,         \* history: number of std::thread objects constructed
  aborted,          \* std::terminate() has been called
  wpc,              \* where the worker thread is in loop()
  fd,               \* the worker's socket: "none", "open" or "closed"
  stream_buf,       \* Annex-B accumulator
  access_unit,      \* assembler buffer
  has_idr,          \* assembler keyframe-seen flag
  lenBuf,           \* AVCC: the length bytes read so far (filled = Len)
  nalLen,           \* AVCC: the decoded length
  nal,              \* AVCC: the payload bytes read so far (filled = Len)
  wire,             \* environment: bytes the peer has sent, not yet read
  received,         \* history: bytes recv has returned on this connection
  read_failed,      \* history: a recv on this connection returned n <= 0
  emitted,          \* history: the access units handed to callback_
  stop_emitted,     \* history: Len(emitted) when stop() last stored false
  handle_valid,     \* EncodedVideoSource: handle_ converts to true
  capture_supported_, \* EncodedVideoSource: std::atomic<bool>
  g_running,        \* main: std::atomic<bool> g_running
  captures          \* history: the captureEncodedFrame calls, in order

vars == <<framing_, reachable, running_, thread_joinable, ctl, calls,
          launched, aborted, wpc, fd, stream_buf, access_unit, has_idr,
          lenBuf, nalLen, nal, wire, received, read_failed, emitted,
          stop_emitted, handle_valid, capture_supported_, g_running, captures>>

ctlVars    == <<running_, thread_joinable, ctl, calls, launched, aborted>>
parseVars  == <<stream_buf, access_unit, has_idr, lenBuf, nalLen, nal>>
capVars    == <<handle_valid, capture_supported_, g_running, captures>>
peerVars   == <<framing_, reachable, read_failed, capVars>>
envVars    == <<peerVars, stop_emitted>>
hostVars   == <<framing_, reachable, capVars, stop_emitted>>

NoLen == [hi |-> 0, lo |-> 0]

InitCommon ==
  /\ running_ = FALSE
  /\ thread_joinable = FALSE
  /\ ctl = "idle"
  /\ calls = <<>>
  /\ launched = 0
  /\ aborted = FALSE
  /\ wpc = "idle"
  /\ fd = "none"
  /\ stream_buf = <<>>
  /\ access_unit = <<>>
  /\ has_idr = FALSE
  /\ lenBuf = <<>>
  /\ nalLen = NoLen
  /\ nal = <<>>
  /\ wire = <<>>
  /\ received = <<>>
  /\ read_failed = FALSE
  /\ emitted = <<>>
  /\ stop_emitted = 0
  /\ handle_valid = TRUE
  /\ capture_supported_ = TRUE
  /\ g_running = TRUE
  /\ captures = <<>>

\* The state after H264TcpSource(host, port, callback, framing).
Init ==
  /\ framing_ \in {"Avcc", "AnnexB"}
  /\ reachable \in BOOLEAN
  /\ InitCommon

\* ------------------------------------------------------------- controller
\* start(): if (running_.exchange(true)) return;
Start ==
  /\ ~aborted
  /\ ctl = "idle"
  /\ Len(calls) < MaxCalls
  /\ calls' = Append(calls, "start")
  /\ running_' = TRUE
  /\ ctl' = IF running_ THEN "idle" ELSE "start_spawn"
  /\ UNCHANGED <<thread_joinable, launched, aborted, wpc, fd, wire, received,
                 emitted>>
  /\ UNCHANGED parseVars
  /\ UNCHANGED envVars

\* start(): thread_ = std::thread(&H264TcpSource::loop, this);
\* The new thread is constructed first; move-assigning it to a thread_ that
\* is still joinable calls std::terminate().
StartSpawn ==
  /\ ~aborted
  /\ ctl = "start_spawn"
  /\ launched' = launched + 1
  /\ IF thread_joinable
     THEN /\ aborted' = TRUE
          /\ UNCHANGED <<thread_joinable, ctl, wpc, fd>>
     ELSE /\ thread_joinable' = TRUE
          /\ wpc' = "connect"
          /\ fd' = "none"
          /\ ctl' = "idle"
          /\ UNCHANGED aborted
  /\ UNCHANGED <<running_, calls, wire, received, emitted>>
  /\ UNCHANGED parseVars
  /\ UNCHANGED envVars

\* A variant of stop() that joins without asking joinable().
stopAfterStoreAlwaysJoin(kind, joinable) ==
  IF kind = "stop" THEN "stop_join" ELSE "dtor_join"

\* A variant of stop() that never joins.
stopAfterStoreNeverJoin(kind, joinable) ==
  IF kind = "stop" THEN "idle" ELSE "destroyed"

\* stop(): if (thread_.joinable()) thread_.join();
stopAfterStore(kind, joinable) ==
  IF joinable
  THEN (IF kind = "stop" THEN "stop_join" ELSE "dtor_join")
  ELSE (IF kind = "stop" THEN "idle" ELSE "destroyed")

\* stop() up to the join, called directly (kind = "stop") or from the
\* destructor (kind = "dtor"): running_.store(false); joinable()?
Stop(kind) ==
  /\ ~aborted
  /\ ctl = "idle"
  /\ Len(calls) < MaxCalls
  /\ calls' = Append(calls, kind)
  /\ running_' = FALSE
  /\ ctl' = stopAfterStore(kind, thread_joinable)
  /\ stop_emitted' = Len(emitted)
  /\ UNCHANGED <<thread_joinable, launched, aborted, wpc, fd, wire, received,
                 emitted>>
  /\ UNCHANGED parseVars
  /\ UNCHANGED peerVars

\* A variant whose join returns while loop() is still running.
StopJoinNoWait ==
  /\ ~aborted
  /\ ctl \in {"stop_join", "dtor_join"}
  /\ thread_joinable' = FALSE
  /\ ctl' = IF ctl = "stop_join" THEN "idle" ELSE "destroyed"
  /\ UNCHANGED <<running_, calls, launched, aborted, wpc, fd, wire, received,
                 emitted>>
  /\ UNCHANGED parseVars
  /\ UNCHANGED envVars

\* A variant whose join returns as soon as running_ is false.
StopJoinOnFlag ==
  /\ ~aborted
  /\ ctl \in {"stop_join", "dtor_join"}
  /\ ~running_
  /\ thread_joinable' = FALSE
  /\ ctl' = IF ctl = "stop_join" THEN "idle" ELSE "destroyed"
  /\ UNCHANGED <<running_, calls, launched, aborted, wpc, fd, wire, received,
                 emitted>>
  /\ UNCHANGED parseVars
  /\ UNCHANGED envVars

\* thread_.join() returns once loop() has returned.
StopJoin ==
  /\ ~aborted
  /\ ctl \in {"stop_join", "dtor_join"}
  /\ wpc = "done"
  /\ thread_joinable' = FALSE
  /\ ctl' = IF ctl = "stop_join" THEN "idle" ELSE "destroyed"
  /\ UNCHANGED <<running_, calls, launched, aborted, wpc, fd, wire, received,
                 emitted>>
  /\ UNCHANGED parseVars
  /\ UNCHANGED envVars

\* ----------------------------------------------------------------- worker
FirstLoopPc == IF framing_ = "AnnexB" THEN "ab_loop" ELSE "av_outer"

\* A variant of the connect-failure path that leaves running_ set.
connectFailRunningKeep(r) == r

\* loop(), connect failure: running_.store(false); return;
connectFailRunning(r) == FALSE

\* A variant of the connect-failure path that falls through to the loop.
connectFailNextFallThrough == FirstLoopPc

\* loop(), connect failure: return;
connectFailNext == "done"

\* A variant in which the worker stores true in running_ once connected.
WorkerConnectSetsRunning ==
  /\ ~aborted
  /\ wpc = "connect"
  /\ IF reachable
     THEN /\ fd' = "open"
          /\ wpc' = FirstLoopPc
          /\ running_' = TRUE
     ELSE /\ running_' = connectFailRunning(running_)
          /\ wpc' = connectFailNext
          /\ UNCHANGED fd
  /\ stream_buf' = <<>>
  /\ access_unit' = <<>>
  /\ has_idr' = FALSE
  /\ lenBuf' = <<>>
  /\ nalLen' = NoLen
  /\ nal' = <<>>
  /\ wire' = <<>>
  /\ received' = <<>>
  /\ UNCHANGED <<thread_joinable, ctl, calls, launched, aborted, emitted>>
  /\ read_failed' = FALSE
  /\ UNCHANGED hostVars

\* loop(): fd = connectTcp(host_, port_), the failure return, and the
\* declarations of the worker's buffers.
WorkerConnect ==
  /\ ~aborted
  /\ wpc = "connect"
  /\ IF reachable
     THEN /\ fd' = "open"
          /\ wpc' = FirstLoopPc
          /\ UNCHANGED running_
     ELSE /\ running_' = connectFailRunning(running_)
          /\ wpc' = connectFailNext
          /\ UNCHANGED fd
  /\ stream_buf' = <<>>
  /\ access_unit' = <<>>
  /\ has_idr' = FALSE
  /\ lenBuf' = <<>>
  /\ nalLen' = NoLen
  /\ nal' = <<>>
  /\ wire' = <<>>
  /\ received' = <<>>
  /\ UNCHANGED <<thread_joinable, ctl, calls, launched, aborted, emitted>>
  /\ read_failed' = FALSE
  /\ UNCHANGED hostVars

\* loop() after either parse loop: close_socket(fd); running_.store(false);
\* return (the worker's buffers go out of scope).
WorkerExit ==
  /\ ~aborted
  /\ wpc = "exit"
  /\ fd' = "closed"
  /\ running_' = FALSE
  /\ wpc' = "done"
  /\ stream_buf' = <<>>
  /\ access_unit' = <<>>
  /\ has_idr' = FALSE
  /\ lenBuf' = <<>>
  /\ nalLen' = NoLen
  /\ nal' = <<>>
  /\ wire' = <<>>
  /\ UNCHANGED <<thread_joinable, ctl, calls, launched, aborted, received,
                 emitted>>
  /\ UNCHANGED envVars

\* A variant of the Annex-B loop test that does not look at running_.
AbLoopForever ==
  /\ ~aborted
  /\ wpc = "ab_loop"
  /\ wpc' = "ab_recv"
  /\ UNCHANGED <<fd, wire, received, emitted>>
  /\ UNCHANGED ctlVars
  /\ UNCHANGED parseVars
  /\ UNCHANGED envVars

\* Annex-B: while (running_.load())
AbLoop ==
  /\ ~aborted
  /\ wpc = "ab_loop"
  /\ wpc' = IF running_ THEN "ab_recv" ELSE "exit"
  /\ UNCHANGED <<fd, wire, received, emitted>>
  /\ UNCHANGED ctlVars
  /\ UNCHANGED parseVars
  /\ UNCHANGED envVars

\* Annex-B: n = recv(fd, chunk, kReadChunkSize, 0) with n > 0, then the
\* append, the scan and the erase.
AbRecv ==
  /\ ~aborted
  /\ wpc = "ab_recv"
  /\ \E n \in 1..Min(Len(wire), kReadChunkSize) :
       LET chunk == Take(wire, n)
           r == AnnexBChunk(stream_buf,
                            [access_unit |-> access_unit,
                             has_idr |-> has_idr, out |-> emitted],
                            chunk)
       IN /\ wire' = Erase(wire, n)
          /\ received' = received \o chunk
          /\ stream_buf' = r.buf
          /\ access_unit' = r.asm.access_unit
          /\ has_idr' = r.asm.has_idr
          /\ emitted' = r.asm.out
  /\ wpc' = "ab_loop"
  /\ UNCHANGED <<fd, lenBuf, nalLen, nal>>
  /\ UNCHANGED ctlVars
  /\ UNCHANGED envVars

\* A variant that, at end of stream, hands over the bytes after the last
\* start code as a final NAL.
AbRecvFailFlush ==
  /\ ~aborted
  /\ wpc = "ab_recv"
  /\ running_' = FALSE
  /\ wpc' = "exit"
  /\ LET sc   == findStartCode(stream_buf, 0)
         tail == Erase(stream_buf, sc.offset + sc.size)
         a    == emit_access_unit([access_unit |-> access_unit,
                                   has_idr |-> has_idr, out |-> emitted],
                                  tail, isVclNal(tail))
     IN IF sc.found /\ sc.offset = 0 /\ tail # <<>>
        THEN /\ access_unit' = a.access_unit
             /\ has_idr' = a.has_idr
             /\ emitted' = a.out
        ELSE UNCHANGED <<access_unit, has_idr, emitted>>
  /\ read_failed' = TRUE
  /\ UNCHANGED <<thread_joinable, ctl, calls, launched, aborted, fd, wire,
                 received, stream_buf, lenBuf, nalLen, nal>>
  /\ UNCHANGED hostVars

\* A variant that takes end of stream for an empty read and loops on.
AbRecvFailSpin ==
  /\ ~aborted
  /\ wpc = "ab_recv"
  /\ wpc' = "ab_loop"
  /\ read_failed' = TRUE
  /\ UNCHANGED <<fd, wire, received, emitted>>
  /\ UNCHANGED ctlVars
  /\ UNCHANGED parseVars
  /\ UNCHANGED hostVars

\* Annex-B: recv returned n <= 0 (end of stream or error):
\* running_.store(false); break;
AbRecvFail ==
  /\ ~aborted
  /\ wpc = "ab_recv"
  /\ running_' = FALSE
  /\ wpc' = "exit"
  /\ UNCHANGED <<thread_joinable, ctl, calls, launched, aborted, fd, wire,
                 received, emitted>>
  /\ UNCHANGED parseVars
  /\ read_failed' = TRUE
  /\ UNCHANGED hostVars

\* AVCC: while (running_.load()) { lenBuf; filled = 0;
AvOuter ==
  /\ ~aborted
  /\ wpc = "av_outer"
  /\ wpc' = IF running_ THEN "av_len_loop" ELSE "exit"
  /\ lenBuf' = <<>>
  /\ UNCHANGED <<fd, stream_buf, access_unit, has_idr, nalLen, nal, wire,
                 received, emitted>>
  /\ UNCHANGED ctlVars
  /\ UNCHANGED envVars

\* AVCC: while (filled < 4 && running_.load()), reached with filled < 4
AvLenLoop ==
  /\ ~aborted
  /\ wpc = "av_len_loop"
  /\ wpc' = IF running_ THEN "av_len_recv" ELSE "av_len_post"
  /\ UNCHANGED <<fd, wire, received, emitted>>
  /\ UNCHANGED ctlVars
  /\ UNCHANGED parseVars
  /\ UNCHANGED envVars

\* A variant that does not loop when the length read comes back short.
AvLenRecvNoLoop ==
  /\ ~aborted
  /\ wpc = "av_len_recv"
  /\ \E n \in 1..Min(Len(wire), 4 - Len(lenBuf)) :
       /\ lenBuf' = lenBuf \o Take(wire, n)
       /\ received' = received \o Take(wire, n)
       /\ wire' = Erase(wire, n)
  /\ wpc' = "av_len_post"
  /\ UNCHANGED <<fd, stream_buf, access_unit, has_idr, nalLen, nal, emitted>>
  /\ UNCHANGED ctlVars
  /\ UNCHANGED envVars

\* AVCC: n = recv(fd, lenBuf + filled, 4 - filled, 0) with n > 0;
\* filled += n; and the filled < 4 half of the loop condition.
AvLenRecv ==
  /\ ~aborted
  /\ wpc = "av_len_recv"
  /\ \E n \in 1..Min(Len(wire), 4 - Len(lenBuf)) :
       /\ lenBuf' = lenBuf \o Take(wire, n)
       /\ received' = received \o Take(wire, n)
       /\ wire' = Erase(wire, n)
  /\ wpc' = IF Len(lenBuf') < 4 THEN "av_len_loop" ELSE "av_len_post"
  /\ UNCHANGED <<fd, stream_buf, access_unit, has_idr, nalLen, nal, emitted>>
  /\ UNCHANGED ctlVars
  /\ UNCHANGED envVars

\* A variant that retries the length read after end of stream or an error.
AvLenRecvFailRetry ==
  /\ ~aborted
  /\ wpc = "av_len_recv"
  /\ wpc' = "av_len_loop"
  /\ read_failed' = TRUE
  /\ UNCHANGED <<fd, wire, received, emitted>>
  /\ UNCHANGED ctlVars
  /\ UNCHANGED parseVars
  /\ UNCHANGED hostVars

\* AVCC: the length recv returned n <= 0: running_.store(false); break;
AvLenRecvFail ==
  /\ ~aborted
  /\ wpc = "av_len_recv"
  /\ running_' = FALSE
  /\ wpc' = "av_len_post"
  /\ UNCHANGED <<thread_joinable, ctl, calls, launched, aborted, fd, wire,
                 received, emitted>>
  /\ UNCHANGED parseVars
  /\ read_failed' = TRUE
  /\ UNCHANGED hostVars

\* A variant that returns from loop() on an invalid length instead of
\* breaking out to close_socket.
AvLenPostReturn ==
  /\ ~aborted
  /\ wpc = "av_len_post"
  /\ IF ~running_ \/ Len(lenBuf) < 4
     THEN /\ wpc' = "exit"
          /\ UNCHANGED <<running_, nalLen, nal>>
     ELSE IF nalLenInvalid(U32(lenBuf))
     THEN /\ running_' = FALSE
          /\ wpc' = "done"
          /\ UNCHANGED <<nalLen, nal>>
     ELSE /\ nalLen' = U32(lenBuf)
          /\ nal' = <<>>
          /\ wpc' = "av_pay_loop"
          /\ UNCHANGED running_
  /\ UNCHANGED <<thread_joinable, ctl, calls, launched, aborted, fd,
                 stream_buf, access_unit, has_idr, lenBuf, wire, received,
                 emitted>>
  /\ UNCHANGED envVars

\* AVCC: if (!running_.load() || filled < 4) break; decode nalLen;
\* if (nalLen == 0 || nalLen > kMaxNalSize) { running_.store(false); break; }
\* std::vector<uint8_t> nal(nalLen); filled = 0; and the filled < nalLen
\* half of the payload loop condition (nalLen > 0 here).
AvLenPost ==
  /\ ~aborted
  /\ wpc = "av_len_post"
  /\ IF ~running_ \/ Len(lenBuf) < 4
     THEN /\ wpc' = "exit"
          /\ UNCHANGED <<running_, nalLen, nal>>
     ELSE IF nalLenInvalid(U32(lenBuf))
     THEN /\ running_' = FALSE
          /\ wpc' = "exit"
          /\ UNCHANGED <<nalLen, nal>>
     ELSE /\ nalLen' = U32(lenBuf)
          /\ nal' = <<>>
          /\ wpc' = "av_pay_loop"
          /\ UNCHANGED running_
  /\ UNCHANGED <<thread_joinable, ctl, calls, launched, aborted, fd,
                 stream_buf, access_unit, has_idr, lenBuf, wire, received,
                 emitted>>
  /\ UNCHANGED envVars

\* AVCC: while (filled < nalLen && running_.load()), reached with
\* filled < nalLen
AvPayLoop ==
  /\ ~aborted
  /\ wpc = "av_pay_loop"
  /\ wpc' = IF running_ THEN "av_pay_recv" ELSE "av_pay_post"
  /\ UNCHANGED <<fd, wire, received, emitted>>
  /\ UNCHANGED ctlVars
  /\ UNCHANGED parseVars
  /\ UNCHANGED envVars

\* AVCC: n = recv(fd, nal.data() + filled, nalLen - filled, 0) with n > 0;
\* filled += n; and the filled < nalLen half of the loop condition.
AvPayRecv ==
  /\ ~aborted
  /\ wpc = "av_pay_recv"
  /\ \E n \in 1..PayloadRoom(Len(nal), nalLen, Min(Len(wire), kReadChunkSize)) :
       /\ nal' = nal \o Take(wire, n)
       /\ received' = received \o Take(wire, n)
       /\ wire' = Erase(wire, n)
  /\ wpc' = IF FilledLess(Len(nal'), nalLen) THEN "av_pay_loop"
            ELSE "av_pay_post"
  /\ UNCHANGED <<fd, stream_buf, access_unit, has_idr, lenBuf, nalLen,
                 emitted>>
  /\ UNCHANGED ctlVars
  /\ UNCHANGED envVars

\* AVCC: the payload recv returned n <= 0: running_.store(false); break;
AvPayRecvFail ==
  /\ ~aborted
  /\ wpc = "av_pay_recv"
  /\ running_' = FALSE
  /\ wpc' = "av_pay_post"
  /\ UNCHANGED <<thread_joinable, ctl, calls, launched, aborted, fd, wire,
                 received, emitted>>
  /\ UNCHANGED parseVars
  /\ read_failed' = TRUE
  /\ UNCHANGED hostVars

\* AVCC: if (!running_.load() || filled < nalLen) break;
\* emit_access_unit(nal.data(), nal.size(), isVclNal(...));
AvPayPost ==
  /\ ~aborted
  /\ wpc = "av_pay_post"
  /\ IF ~running_ \/ FilledLess(Len(nal), nalLen)
     THEN /\ wpc' = "exit"
          /\ UNCHANGED <<access_unit, has_idr, emitted, nal>>
     ELSE LET a == emit_access_unit([access_unit |-> access_unit,
                                     has_idr |-> has_idr, out |-> emitted],
                                    nal, isVclNal(nal))
          IN /\ access_unit' = a.access_unit
             /\ has_idr' = a.has_idr
             /\ emitted' = a.out
             /\ nal' = <<>>
             /\ wpc' = "av_outer"
  /\ UNCHANGED <<fd, stream_buf, lenBuf, nalLen, wire, received>>
  /\ UNCHANGED ctlVars
  /\ UNCHANGED envVars

\* ------------------------------------------------------ EncodedVideoSource
\* bool captureSupported() const noexcept
captureSupported == capture_supported_

\* What captureEncodedFrame(data, size, ...) returns and stores when the FFI
\* request behaves as ffi ("ok" or "throws"): [ret, supported].
captureEncodedFrame(is_null, size, ffi) ==
  IF ~handle_valid THEN [ret |-> FALSE, supported |-> capture_supported_]
  ELSE IF is_null \/ size = 0
  THEN [ret |-> FALSE, supported |-> capture_supported_]
  ELSE IF ~capture_supported_
  THEN [ret |-> FALSE, supported |-> capture_supported_]
  ELSE IF ffi = "ok" THEN [ret |-> TRUE, supported |-> capture_supported_]
  ELSE [ret |-> FALSE, supported |-> FALSE]

h264Vars == <<framing_, reachable, read_failed, wpc, fd, wire, received,
              emitted, stop_emitted>>

\* Some holder of the EncodedVideoSource calls captureEncodedFrame.
CaptureEncodedFrame ==
  /\ Len(captures) < MaxCaptures
  /\ \E is_null \in BOOLEAN, size \in {0, 5}, ffi \in {"ok", "throws"} :
       LET r == captureEncodedFrame(is_null, size, ffi)
       IN /\ capture_supported_' = r.supported
          /\ captures' = Append(captures,
                                [by |-> "caller", size |-> size,
                                 ret |-> r.ret])
  /\ UNCHANGED <<handle_valid, g_running>>
  /\ UNCHANGED ctlVars
  /\ UNCHANGED parseVars
  /\ UNCHANGED h264Vars

\* main's access-unit callback: ok = captureEncodedFrame(au.data, ...);
\* if (!ok || !captureSupported()) g_running.store(false);
\* au.data is never empty.
Callback ==
  /\ Len(captures) < MaxCaptures
  /\ \E size \in {5, 10}, ffi \in {"ok", "throws"} :
       LET r == captureEncodedFrame(FALSE, size, ffi)
       IN /\ capture_supported_' = r.supported
          /\ captures' = Append(captures,
                                [by |-> "callback", size |-> size,
                                 ret |-> r.ret])
          /\ g_running' = IF ~r.ret \/ ~r.supported THEN FALSE
                          ELSE g_running
  /\ UNCHANGED handle_valid
  /\ UNCHANGED ctlVars
  /\ UNCHANGED parseVars
  /\ UNCHANGED h264Vars

\* ------------------------------------------------------------------- peer
\* The peer writes item to the connection; total bounds the bytes it sends
\* on one connection and unread the bytes waiting in the socket.
PeerSend(items, total, unread) ==
  /\ ~aborted
  /\ fd = "open"
  /\ \E u \in items :
       /\ Len(received) + Len(wire) + Len(u) <= total
       /\ Len(wire) + Len(u) <= unread
       /\ wire' = wire \o u
  /\ UNCHANGED <<wpc, fd, received, emitted>>
  /\ UNCHANGED ctlVars
  /\ UNCHANGED parseVars
  /\ UNCHANGED envVars

StartCodes == {<<0, 0, 1>>, <<0, 0, 0, 1>>}

\* NAL payloads the peer frames: SPS (0x67), IDR slice (0x65), non-IDR
\* slice (0x41).
NalMenu == {<<103>>, <<101>>, <<65>>}

AnnexBUnits == {sc \o n : sc \in StartCodes, n \in NalMenu}

\* Well-formed records, and length prefixes 0, 4 MiB, 4 MiB + 1 and one with
\* the top bit set.
AvccUnits ==
  {<<0, 0, 0, 1>> \o n : n \in NalMenu}
    \cup {<<0, 0, 0, 2, 101, 7>>}
    \cup {<<0, 0, 0, 0>>, <<0, 64, 0, 0>>, <<0, 64, 0, 1>>, <<128, 0, 0, 1>>}

Units == IF framing_ = "AnnexB" THEN AnnexBUnits ELSE AvccUnits

\* The peer writes one framed unit.
PeerSendUnit == PeerSend(Units, MaxStream, MaxWire)

\* A small menu for the lifecycle: an IDR slice and an SPS in either framing,
\* and a zero AVCC length.
Frames ==
  IF framing_ = "AnnexB"
  THEN {<<0, 0, 1, 101>>, <<0, 0, 1, 103>>}
  ELSE {<<0, 0, 0, 1, 101>>, <<0, 0, 0, 1, 103>>, <<0, 0, 0, 0>>}

PeerSendFrame == PeerSend(Frames, MaxLife, MaxLife)

\* Bytes of an arbitrary Annex-B peer: 0x00, 0x01 (also a type-1 NAL header)
\* and 0x65 (a type-5 NAL header).
RawBytes == {0, 1, 101}

\* The peer writes one arbitrary byte.
PeerSendByte == PeerSend({<<b>> : b \in RawBytes}, MaxRaw, MaxRawWire)

\* Pieces of an unframed stream: a 3-byte start code, 0x00 and 0x65.
Tokens == {<<0, 0, 1>>, <<0>>, <<101>>}

\* The peer writes one piece.
PeerSendToken == PeerSend(Tokens, MaxAny, MaxRawWire)

\* --------------------------------------------------------- specifications
\* The whole program: every controller call in every interleaving with the
\* worker, and a peer that sends frames from the small menu.
Next ==
  \/ Start
  \/ StartSpawn
  \/ Stop("stop")
  \/ Stop("dtor")
  \/ StopJoin
  \/ WorkerConnect
  \/ AbLoop
  \/ AbRecv
  \/ AbRecvFail
  \/ AvOuter
  \/ AvLenLoop
  \/ AvLenRecv
  \/ AvLenRecvFail
  \/ AvLenPost
  \/ AvPayLoop
  \/ AvPayRecv
  \/ AvPayRecvFail
  \/ AvPayPost
  \/ WorkerExit
  \/ PeerSendFrame

Spec == Init /\ [][Next]_vars

\* The worker's steps that do not wait for the peer.
WorkerLocal ==
  \/ WorkerConnect
  \/ AbLoop
  \/ AvOuter
  \/ AvLenLoop
  \/ AvLenPost
  \/ AvPayLoop
  \/ AvPayPost
  \/ WorkerExit

\* Both threads are scheduled: a step that does not wait for the peer is
\* eventually taken.  A recv may block for ever.
FairSpec ==
  /\ Init
  /\ [][Next]_vars
  /\ WF_vars(WorkerLocal)
  /\ WF_vars(StartSpawn)
  /\ WF_vars(StopJoin)

StartOnce == calls = <<>> /\ Start

\* A source started once and never stopped, in either framing, reading
\* from a peer that sends framed units.
NextParse ==
  \/ StartOnce
  \/ StartSpawn
  \/ WorkerConnect
  \/ AbLoop
  \/ AbRecv
  \/ AbRecvFail
  \/ AvOuter
  \/ AvLenLoop
  \/ AvLenRecv
  \/ AvLenRecvFail
  \/ AvLenPost
  \/ AvPayLoop
  \/ AvPayRecv
  \/ AvPayRecvFail
  \/ AvPayPost
  \/ WorkerExit
  \/ PeerSendUnit

SpecParse == Init /\ [][NextParse]_vars

\* An Annex-B source started once and never stopped, reading from a peer
\* that sends arbitrary bytes.
InitRaw ==
  /\ framing_ = "AnnexB"
  /\ reachable = TRUE
  /\ InitCommon

NextRaw ==
  \/ StartOnce
  \/ StartSpawn
  \/ WorkerConnect
  \/ AbLoop
  \/ AbRecv
  \/ AbRecvFail
  \/ WorkerExit
  \/ PeerSendByte

SpecRaw == InitRaw /\ [][NextRaw]_vars

\* A source started once and never stopped, in either framing, reading
\* from a peer that sends start codes, zero bytes and IDR slice headers in
\* any order (in AVCC, 00 then 00 00 01 is the length 1).
InitAny ==
  /\ framing_ \in {"Avcc", "AnnexB"}
  /\ reachable = TRUE
  /\ InitCommon

NextAny ==
  \/ StartOnce
  \/ StartSpawn
  \/ WorkerConnect
  \/ AbLoop
  \/ AbRecv
  \/ AbRecvFail
  \/ AvOuter
  \/ AvLenLoop
  \/ AvLenRecv
  \/ AvLenRecvFail
  \/ AvLenPost
  \/ AvPayLoop
  \/ AvPayRecv
  \/ AvPayRecvFail
  \/ AvPayPost
  \/ WorkerExit
  \/ PeerSendToken

SpecAny == InitAny /\ [][NextAny]_vars

\* An EncodedVideoSource used by main's callback and by other callers.
NextCapture ==
  \/ CaptureEncodedFrame
  \/ Callback

SpecCapture == Init /\ [][NextCapture]_vars

\* ------------------------------------------------------------ properties
\* The controller has called start() only.
NoStopCalled == \A i \in 1..Len(calls) : calls[i] = "start"

\* Unsigned big-endian order on 4-byte strings.
LexLeq(a, b) ==
  \/ a[1] < b[1]
  \/ a[1] = b[1] /\ a[2] < b[2]
  \/ a[1] = b[1] /\ a[2] = b[2] /\ a[3] < b[3]
  \/ a[1] = b[1] /\ a[2] = b[2] /\ a[3] = b[3] /\ a[4] <= b[4]

\* A 4-byte big-endian length in 1 .. 4 MiB (4 MiB = 00 40 00 00).
LenBytesValid(b) == b # <<0, 0, 0, 0>> /\ LexLeq(b, <<0, 64, 0, 0>>)

\* Does a record with length bytes b end within avail payload bytes
\* (avail < 65536)?
RecordFits(b, avail) ==
  b[1] = 0 /\ b[2] = 0 /\ b[3] * 256 + b[4] <= avail

\* s holds only well-formed AVCC records, the last one possibly incomplete.
RECURSIVE AvccWellFormed(_)
AvccWellFormed(s) ==
  IF Len(s) < 4 THEN TRUE
  ELSE LET b == Take(s, 4)
       IN /\ LenBytesValid(b)
          /\ IF RecordFits(b, Len(s) - 4)
             THEN AvccWellFormed(Erase(s, 4 + b[3] * 256 + b[4]))
             ELSE TRUE

\* The payloads of the complete records of a well-formed AVCC stream s.
RECURSIVE AvccRecords(_)
AvccRecords(s) ==
  IF Len(s) < 4 THEN <<>>
  ELSE LET b == Take(s, 4)
       IN IF RecordFits(b, Len(s) - 4)
          THEN <<Slice(s, 4, b[3] * 256 + b[4])>>
                 \o AvccRecords(Erase(s, 4 + b[3] * 256 + b[4]))
          ELSE <<>>

\* A NAL of type 1 or 5.
IsVcl(n) == Len(n) > 0 /\ n[1] % 32 \in {1, 5}

RECURSIVE VclCount(_)
VclCount(ns) ==
  IF ns = <<>> THEN 0
  ELSE (IF IsVcl(ns[1]) THEN 1 ELSE 0) + VclCount(Tail(ns))

BeginsWithStartCode(data) == Len(data) >= 4 /\ Take(data, 4) = kStartCode

\* C1: in AVCC mode, for a stream of well-formed records, whenever the
\* worker is not in the middle of handing over a complete NAL, the callback
\* has been invoked exactly once per VCL NAL (type 1 or 5) completely read
\* and for nothing else, and every buffer begins with 00 00 00 01.
C1_AvccOncePerVcl ==
  (/\ framing_ = "Avcc"
   /\ AvccWellFormed(received)
   /\ wpc # "av_pay_post")
  => /\ Len(emitted) = VclCount(AvccRecords(received))
     /\ \A i \in 1..Len(emitted) : BeginsWithStartCode(emitted[i].data)

\* Two callbacks for three records: SPS + IDR, then a non-IDR slice.
C1_Witness ==
  /\ framing_ = "Avcc"
  /\ received = <<0, 0, 0, 1, 103, 0, 0, 0, 1, 101, 0, 0, 0, 1, 65>>
  /\ wpc = "av_outer"
  /\ Len(emitted) = 2

\* What the Annex-B worker delivers when s arrives in a single read.
AnnexBSingleRead(s) ==
  IF s = <<>> THEN <<>>
  ELSE AnnexBChunk(<<>>,
                   [access_unit |-> <<>>, has_idr |-> FALSE, out |-> <<>>],
                   s).asm.out

\* C2: in Annex-B mode, however the bytes received so far were split into
\* reads, the access units delivered (bytes and is_keyframe, in order) are
\* those delivered when the same bytes arrive in a single read.
C2_ChunkingInvariance == emitted = AnnexBSingleRead(received)

\* An access unit has been delivered and later bytes are still unread.
C2_Witness ==
  /\ Len(emitted) = 1
  /\ Len(received) = 8
  /\ wire # <<>>

\* The worker leaves the length check with all 4 length bytes and running_
\* set.
LengthChecked ==
  wpc = "av_len_post" /\ running_ /\ Len(lenBuf) = 4 /\ wpc' # wpc

LengthOutcome ==
  IF LenBytesValid(lenBuf)
  THEN wpc' = "av_pay_loop" /\ running_' /\ emitted' = emitted
  ELSE wpc' = "exit" /\ ~running_' /\ received' = received
       /\ emitted' = emitted

Exiting == wpc = "exit" \/ wpc = "done"

ExitingIsQuiet ==
  /\ wpc' \in {"exit", "done"}
  /\ ~running_'
  /\ received' = received
  /\ emitted' = emitted

\* C3: in AVCC mode, when the worker has the 4 length bytes and running_
\* is set, it goes on to the payload exactly when the bytes, read as an
\* unsigned big-endian number, are in 1 .. 4194304; otherwise it reads no
\* payload, clears running_ and exits; and once exiting the worker reads
\* nothing more and invokes the callback no more.
C3_LengthValidation ==
  /\ [][LengthChecked => LengthOutcome]_vars
  /\ [][Exiting => ExitingIsQuiet]_vars

\* A record was delivered, then a length with the top bit set was rejected.
C3_Witness ==
  /\ framing_ = "Avcc"
  /\ wpc = "exit"
  /\ lenBuf = <<128, 0, 0, 1>>
  /\ ~running_
  /\ Len(emitted) = 1

\* The 0-based offset of the first 00 00 00 01 at or after i, or Len(data).
RECURSIVE NextStartCode(_, _)
NextStartCode(data, i) ==
  IF i + 4 > Len(data) THEN Len(data)
  ELSE IF Slice(data, i, 4) = kStartCode THEN i
  ELSE NextStartCode(data, i + 1)

\* The NALs of a buffer made of (00 00 00 01, NAL) pairs.
RECURSIVE SplitNals(_)
SplitNals(data) ==
  IF Len(data) < 4 THEN <<>>
  ELSE LET e == NextStartCode(data, 4)
       IN <<Slice(data, 4, e - 4)>> \o SplitNals(Erase(data, e))

HasType5(ns) == \E j \in 1..Len(ns) : Len(ns[j]) > 0 /\ ns[j][1] % 32 = 5

\* C4: in either framing, every access unit delivered has is_keyframe true
\* if and only if one of the NALs in its buffer has type 5.
C4_KeyframeIffIdr ==
  \A i \in 1..Len(emitted) :
    emitted[i].is_keyframe <=> HasType5(SplitNals(emitted[i].data))

\* A keyframe followed by a non-keyframe.
C4_Witness ==
  /\ Len(emitted) = 2
  /\ emitted[1].is_keyframe
  /\ ~emitted[2].is_keyframe

C5_Input == <<0, 0, 0, 1, 103, 0, 0, 1, 101>>

C5_Unit == [data |-> <<0, 0, 0, 1, 103, 0, 0, 0, 1, 101>>,
            is_keyframe |-> TRUE]

\* C5 as stated: an Annex-B worker that has terminated after receiving
\* exactly 00 00 00 01 <SPS> 00 00 01 <IDR> has invoked the callback exactly
\* once, with both NALs re-prefixed and is_keyframe true.
C5_OnceForCompleteInput ==
  (framing_ = "AnnexB" /\ received = C5_Input /\ wpc = "done")
  => emitted = <<C5_Unit>>

\* C5 amended: with exactly 00 00 00 01 <SPS> 00 00 01 <IDR> received the
\* callback has not been invoked; once a further start code and NAL byte
\* have been received it has been invoked exactly once, with both NALs
\* re-prefixed and is_keyframe true.
C5_OnceAfterNextStartCode ==
  framing_ = "AnnexB"
  => /\ received = C5_Input => emitted = <<>>
     /\ \A u \in AnnexBUnits :
          received = C5_Input \o u => emitted = <<C5_Unit>>

C5_Witness ==
  /\ framing_ = "AnnexB"
  /\ received = C5_Input \o <<0, 0, 0, 1, 65>>
  /\ emitted = <<C5_Unit>>

\* C6 as stated: as long as the controller has called only start(), at most
\* one worker thread has been launched.
C6_OneWorkerForTwoStarts == NoStopCalled => launched <= 1

NeverStarted == \A i \in 1..Len(calls) : calls[i] # "start"

StopOnNeverStarted ==
  ctl = "idle" /\ NeverStarted /\ calls' = Append(calls, "stop")

StopWasNoOp ==
  /\ ctl' = "idle"
  /\ ~running_'
  /\ ~thread_joinable'
  /\ ~aborted'
  /\ launched' = 0
  /\ wpc' = "idle"
  /\ fd' = "none"
  /\ emitted' = <<>>

FirstStart ==
  ctl = "idle" /\ NeverStarted /\ calls' = Append(calls, "start")

FirstStartLaunches == ctl' = "start_spawn" /\ running_'

\* C7: stop() on an instance never started returns at once without joining,
\* launches no worker, opens no socket, invokes no callback and leaves
\* running_ false; such an instance stays untouched, and its first start()
\* goes on to launch the worker.
C7_StopBeforeStart ==
  /\ [][StopOnNeverStarted => StopWasNoOp]_vars
  /\ [][FirstStart => FirstStartLaunches]_vars
  /\ [](NeverStarted => /\ ~running_
                        /\ launched = 0
                        /\ wpc = "idle"
                        /\ fd = "none"
                        /\ emitted = <<>>)
  /\ []((Len(calls) = 2 /\ calls[1] = "stop" /\ calls[2] = "start"
         /\ ctl = "idle")
        => launched = 1 /\ ~aborted /\ thread_joinable)

\* stop() first, then start(), and the worker has delivered an access unit.
C7_Witness ==
  /\ calls = <<"stop", "start">>
  /\ Len(emitted) = 1
  /\ running_

\* C8 as stated: when connectTcp fails, running_ is never true.
C8_NeverRunning == ~reachable => ~running_

\* C8 amended: when connectTcp fails, running_ is true only from start()'s
\* exchange until the worker has seen the failure; the worker never gets a
\* connected socket, reads nothing and invokes no callback.
C8_RunningOnlyUntilFailure ==
  ~reachable
  => /\ running_ => (ctl = "start_spawn" \/ wpc = "connect")
     /\ fd = "none"
     /\ received = <<>>
     /\ emitted = <<>>

C8_Witness ==
  /\ ~reachable
  /\ calls = <<"start">>
  /\ ctl = "idle"
  /\ wpc = "done"
  /\ ~running_

StartLaunchesRefused ==
  ~reachable /\ ctl = "start_spawn" /\ ~thread_joinable /\ ctl' # ctl

StartReturnedBeforeConnect == ctl' = "idle" /\ wpc' = "connect"

RefusedSeen == ~reachable /\ wpc = "done" /\ ~running_ /\ calls' = calls

InStopJoin == ctl = "stop_join" \/ ctl = "dtor_join"

\* C9: when the connection is refused, start() returns while the connect
\* attempt is still to be made; the worker never reaches a read and invokes
\* no callback; the worker eventually terminates with running_ false, and
\* running_ stays false until start() is called again; a stop() waiting in
\* join eventually returns.
C9_RefusedConnection ==
  /\ [][StartLaunchesRefused => StartReturnedBeforeConnect]_vars
  /\ [](~reachable => /\ wpc \in {"idle", "connect", "done"}
                      /\ fd = "none"
                      /\ received = <<>>
                      /\ emitted = <<>>)
  /\ ((~reachable /\ wpc = "connect") ~> (wpc = "done" /\ ~running_))
  /\ [][RefusedSeen => ~running_']_vars
  /\ ((~reachable /\ InStopJoin) ~> ~InStopJoin)

C9_Witness ==
  /\ ~reachable
  /\ calls = <<"start", "stop">>
  /\ ctl = "idle"
  /\ wpc = "done"
  /\ ~thread_joinable

StopReturned ==
  \/ ctl = "idle" /\ calls # <<>> /\ calls[Len(calls)] = "stop"
  \/ ctl = "destroyed"

StopAgain == StopReturned /\ calls' = Append(calls, "stop")

StopAgainChangesNothing ==
  /\ ctl' = "idle"
  /\ UNCHANGED <<running_, thread_joinable, launched, aborted, wpc, fd,
                 wire, received, emitted>>
  /\ UNCHANGED parseVars

\* C10: whenever stop() (or the destructor) has returned, running_ is false
\* and no worker is alive or left to join; a further stop() returns at once
\* and changes nothing.
C10_StopReturns ==
  /\ [](StopReturned => /\ ~running_
                        /\ wpc \in {"idle", "done"}
                        /\ ~thread_joinable)
  /\ [][StopAgain => StopAgainChangesNothing]_vars

\* start(), stop() and stop() again, with a worker that had connected.
C10_Witness ==
  /\ calls = <<"start", "stop", "stop">>
  /\ ctl = "idle"
  /\ fd = "closed"

ReadJustFailed == ~read_failed /\ read_failed'

InvalidLengthSeen ==
  wpc = "av_len_post" /\ Len(lenBuf) = 4 /\ ~LenBytesValid(lenBuf)

\* The worker has returned with running_ false, or the process is gone.
WorkerGone == (wpc = "done" /\ ~running_) \/ aborted

\* C11: with no stop() called, once a recv has returned end of stream or an
\* error (the flag is cleared in that very step), or an invalid AVCC length
\* has been read, the worker eventually terminates with running_ false; and
\* whenever the worker has terminated and no start() has set the flag again,
\* running_ is false.
C11_WorkerClearsRunning ==
  /\ [][ReadJustFailed => ~running_']_vars
  /\ ((NoStopCalled /\ (read_failed \/ InvalidLengthSeen)) ~> WorkerGone)
  /\ []((wpc = "done" /\ ctl # "start_spawn") => ~running_)

\* One start(), a delivered unit, then a failed read and the worker gone.
C11_Witness ==
  /\ calls = <<"start">>
  /\ read_failed
  /\ wpc = "done"
  /\ ~running_
  /\ Len(emitted) = 1

\* ---- what the byte stream says, independently of the parser's code ----
\* 00 00 01 at offset j of s with a byte after it.
PatternAt(s, j) == j + 3 < Len(s) /\ Slice(s, j, 3) = <<0, 0, 1>>

Patterns(s, from) == {j \in from..(Len(s) - 1) : PatternAt(s, j)}

SetMin(S) == CHOOSE x \in S : \A y \in S : x <= y

\* The first start code of s at or after from: the first 00 00 01 that a byte
\* follows, together with a 00 right before it when that 00 is not before
\* from.  It occupies the offsets begin .. end - 1.
Located(s, from) ==
  IF Patterns(s, from) = {} THEN [found |-> FALSE, begin |-> 0, end |-> 0]
  ELSE LET j == SetMin(Patterns(s, from))
       IN [found |-> TRUE,
           begin |-> IF j > from /\ At(s, j - 1) = 0 THEN j - 1 ELSE j,
           end |-> j + 3]

\* The byte strings of s, from offset from on, that end at a located start
\* code, each with the offset where it starts.
RECURSIVE SpansFrom(_, _)
SpansFrom(s, from) ==
  LET nx == Located(s, from)
  IN IF ~nx.found THEN <<>>
     ELSE <<[start |-> from, bytes |-> Slice(s, from, nx.begin - from)]>>
            \o SpansFrom(s, nx.end)

\* The NALs of an Annex-B stream that are delimited by two start codes.
AnnexBSpans(s) ==
  IF ~Located(s, 0).found THEN <<>> ELSE SpansFrom(s, Located(s, 0).end)

AnnexBNals(s) == [i \in 1..Len(AnnexBSpans(s)) |-> AnnexBSpans(s)[i].bytes]

\* The NALs completely received on this connection, in stream order.
ReceivedNals ==
  IF framing_ = "AnnexB" THEN AnnexBNals(received) ELSE AvccRecords(received)

RECURSIVE SelectVcl(_)
SelectVcl(ns) ==
  IF ns = <<>> THEN <<>>
  ELSE (IF IsVcl(ns[1]) THEN <<ns[1]>> ELSE <<>>) \o SelectVcl(Tail(ns))

IsPrefix(a, b) == Len(a) <= Len(b) /\ Take(b, Len(a)) = a

\* The last NAL of each delivered access unit.
LastNals ==
  [i \in 1..Len(emitted) |->
     LET ns == SplitNals(emitted[i].data) IN ns[Len(ns)]]

\* The worker, if any, will invoke the callback no more.
WorkerQuiet ==
  \/ wpc \in {"idle", "exit", "done"}
  \/ wpc = "av_len_post" /\ Len(lenBuf) < 4
  \/ wpc = "av_pay_post" /\ FilledLess(Len(nal), nalLen)

CallbackStep == emitted' # emitted

\* A callback is made by a step of the live worker that ends at a loop test,
\* never at a recv, and appends to the deliveries made before.
CallbackOnWorker ==
  /\ thread_joinable
  /\ ~aborted
  /\ wpc \in {"ab_recv", "av_pay_post"}
  /\ wpc' \in {"ab_loop", "av_outer"}
  /\ framing_ = "Avcc" => received' = received
  /\ IsPrefix(emitted, emitted')

ThreadConstructed == launched' > launched

ReadFailureBreaks ==
  /\ ~running_'
  /\ wpc' \in {"exit", "av_len_post", "av_pay_post"}
  /\ emitted' = emitted
  /\ received' = received

\* A recv of the worker's connection has failed (a worker launched since
\* has not connected yet).
FailedRead == read_failed /\ wpc # "connect"

AfterFailureNothing ==
  /\ emitted' = emitted
  /\ (received' = received \/ (wpc = "done" /\ wpc' = "connect"))
  /\ (wpc' \in {"exit", "done", "connect"} \/ wpc' = wpc)

\* C13: the step in which a recv returns end of stream or an error clears
\* running_ and leaves the read loop without a callback; from then on, on
\* that connection, the worker only goes to its exit: it reads nothing and
\* invokes no callback, whatever it had accumulated; and once it has
\* returned, the assembler buffer, the partial AVCC record and the Annex-B
\* accumulator are gone.
C13_ReadFailureDiscards ==
  /\ [][ReadJustFailed => ReadFailureBreaks]_vars
  /\ [][FailedRead => AfterFailureNothing]_vars
  /\ [](FailedRead => WorkerQuiet)
  /\ []((FailedRead /\ wpc = "done")
        => /\ access_unit = <<>>
           /\ stream_buf = <<>>
           /\ lenBuf = <<>>
           /\ nal = <<>>)

\* The read failed in the middle of an AVCC length prefix while an SPS was
\* waiting for its slice; the worker returned without delivering it.
C13_Witness ==
  /\ framing_ = "Avcc"
  /\ read_failed
  /\ wpc = "done"
  /\ received = <<0, 0, 0, 1, 103, 0, 0>>
  /\ emitted = <<>>

\* 00 00 00 01 before each NAL of ns.
RECURSIVE Reframe(_)
Reframe(ns) ==
  IF ns = <<>> THEN <<>> ELSE kStartCode \o ns[1] \o Reframe(Tail(ns))

\* data is one or more (00 00 00 01, non-empty NAL) pairs.
WellFramed(data) ==
  LET ns == SplitNals(data)
  IN /\ Len(data) > 4
     /\ BeginsWithStartCode(data)
     /\ ns # <<>>
     /\ \A j \in 1..Len(ns) : Len(ns[j]) > 0
     /\ Reframe(ns) = data

\* C14: in either framing and whatever bytes arrive, every buffer handed to
\* the callback is non-empty, begins with 00 00 00 01 and is made of one or
\* more (00 00 00 01, non-empty NAL) pairs; the same holds of the access unit
\* being assembled whenever it is not empty, so no zero-length NAL is ever
\* appended.
C14_BuffersWellFramed ==
  /\ \A i \in 1..Len(emitted) : WellFramed(emitted[i].data)
  /\ access_unit = <<>> \/ WellFramed(access_unit)

\* Two adjacent start codes, then an IDR slice that has been delivered.
C14_Witness ==
  /\ framing_ = "AnnexB"
  /\ received = <<0, 0, 1, 0, 0, 1, 101, 0, 0, 1, 0>>
  /\ emitted = <<[data |-> <<0, 0, 0, 1, 101>>, is_keyframe |-> TRUE]>>

SomeCaptureFailed == \E i \in 1..Len(captures) : ~captures[i].ret

\* C15 as stated: once a call to captureEncodedFrame has returned false,
\* captureSupported() returns false.
C15_UnsupportedAfterFailure == SomeCaptureFailed => ~captureSupported

RECURSIVE NonEmpty(_)
NonEmpty(ns) ==
  IF ns = <<>> THEN <<>>
  ELSE (IF ns[1] = <<>> THEN <<>> ELSE <<ns[1]>>) \o NonEmpty(Tail(ns))

\* The NALs of the first n delivered access units, in order.
RECURSIVE DeliveredNals(_)
DeliveredNals(n) ==
  IF n = 0 THEN <<>>
  ELSE DeliveredNals(n - 1) \o SplitNals(emitted[n].data)

\* The NALs handed to the assembler so far on a live connection: those
\* delivered and those waiting in the access unit being assembled.
HandedNals == DeliveredNals(Len(emitted)) \o SplitNals(access_unit)

\* The bytes of s from the end of its last located start code on.
RECURSIVE TailFrom(_, _)
TailFrom(s, from) ==
  IF Located(s, from).found THEN TailFrom(s, Located(s, from).end)
  ELSE Erase(s, from)

\* C16: in Annex-B mode the non-empty NALs handed to the assembler are, in
\* order, exactly the byte strings of the received stream that lie between
\* the end of one located start code and the beginning of the next located
\* one (a start code is located only once a byte after it has arrived); so
\* the bytes after the last located start code have been handed over in no
\* state, and a worker that has returned after the peer closed has delivered
\* none of them.
C16_NalBetweenStartCodes ==
  /\ wpc # "done" => HandedNals = NonEmpty(AnnexBNals(received))
  /\ IsPrefix(DeliveredNals(Len(emitted)), NonEmpty(AnnexBNals(received)))

\* The peer sent two IDR slices and closed: the first was delivered, the
\* second, after the last start code, was not.
C16_Witness ==
  /\ received = <<0, 0, 1, 101, 0, 0, 0, 1, 101>>
  /\ TailFrom(received, 0) = <<101>>
  /\ read_failed
  /\ wpc = "done"
  /\ emitted = <<[data |-> <<0, 0, 0, 1, 101>>, is_keyframe |-> TRUE]>>

\* The access units of a NAL sequence: each is the non-VCL NALs since the
\* previous unit, then one VCL NAL.  pend holds the NALs waiting.
RECURSIVE GroupUnits(_, _)
GroupUnits(ns, pend) ==
  IF ns = <<>> THEN <<>>
  ELSE IF IsVcl(ns[1])
       THEN <<Append(pend, ns[1])>> \o GroupUnits(Tail(ns), <<>>)
       ELSE GroupUnits(Tail(ns), Append(pend, ns[1]))

\* The NALs after the last VCL NAL.
RECURSIVE PendingNals(_, _)
PendingNals(ns, pend) ==
  IF ns = <<>> THEN pend
  ELSE IF IsVcl(ns[1]) THEN PendingNals(Tail(ns), <<>>)
       ELSE PendingNals(Tail(ns), Append(pend, ns[1]))

\* A complete AVCC record has been read and not yet handed to the assembler.
RecordInHand == wpc = "av_pay_post" /\ ~FilledLess(Len(nal), nalLen)

\* The non-empty NALs received and handed to the assembler, in stream order.
NalsHandedOver ==
  LET ns == NonEmpty(ReceivedNals)
  IN IF RecordInHand THEN Take(ns, Len(ns) - 1) ELSE ns

RECURSIVE ConcatData(_)
ConcatData(n) ==
  IF n = 0 THEN <<>> ELSE ConcatData(n - 1) \o emitted[n].data

EmittedUnits == [i \in 1..Len(emitted) |-> SplitNals(emitted[i].data)]

\* C17: in either framing, the delivered access units are, in order, the
\* groups "non-VCL NALs since the previous delivery, then one VCL NAL" of
\* the NALs handed over, every NAL behind 00 00 00 01; the delivered buffers
\* put end to end are the re-framed NALs up to and including the last VCL
\* NAL; the access unit being assembled holds exactly the NALs after the last
\* VCL NAL, so it is empty right after a delivery; and has_idr is false
\* between NALs.
C17_AssemblerKeepsEveryNal ==
  LET ns   == NalsHandedOver
      pend == PendingNals(ns, <<>>)
  IN /\ EmittedUnits = GroupUnits(ns, <<>>)
     /\ ConcatData(Len(emitted))
          = Reframe(Take(ns, Len(ns) - Len(pend)))
     /\ wpc # "done" => access_unit = Reframe(pend)
     /\ ~has_idr

\* SPS and IDR slice delivered as one unit; a second SPS is waiting.
C17_Witness ==
  /\ received = <<0, 0, 0, 1, 103, 0, 0, 0, 1, 101, 0, 0, 0, 1, 103>>
  /\ EmittedUnits = << <<(<<103>>), (<<101>>)>> >>
  /\ access_unit = <<0, 0, 0, 1, 103>>
  /\ wpc = "av_outer"

\* s contains 00 00 01 nowhere.
NoPattern(s) == \A j \in 0..(Len(s) - 3) : Slice(s, j, 3) # <<0, 0, 1>>

BeginsWithEitherStartCode(s) ==
  \/ Len(s) >= 3 /\ Take(s, 3) = <<0, 0, 1>>
  \/ Len(s) >= 4 /\ Take(s, 4) = <<0, 0, 0, 1>>

\* The ways to read the received bytes as G followed by S: the lengths of a
\* non-empty G without start-code pattern before an S that begins with a
\* start code.
GarbageSplits ==
  {k \in 1..Len(received) :
     NoPattern(Take(received, k))
       /\ BeginsWithEitherStartCode(Erase(received, k))}

\* C18: in Annex-B mode, whenever the bytes received are G followed by S,
\* with no start-code pattern in G and a start code at the beginning of S,
\* the access units delivered are those delivered for S alone, and the access
\* unit being assembled is the same as for S alone.
C18_LeadingBytesDropped ==
  \A k \in GarbageSplits :
    LET alone == AnnexBChunk(<<>>,
                             [access_unit |-> <<>>, has_idr |-> FALSE,
                              out |-> <<>>],
                             Erase(received, k))
    IN /\ emitted = alone.asm.out
       /\ wpc # "done" => access_unit = alone.asm.access_unit

\* A byte before the first start code, and an IDR slice delivered without it.
C18_Witness ==
  /\ received = <<101, 0, 0, 1, 101, 0, 0, 1, 1>>
  /\ GarbageSplits = {1}
  /\ emitted = <<[data |-> <<0, 0, 0, 1, 101>>, is_keyframe |-> TRUE]>>
  /\ stream_buf = <<0, 0, 1, 1>>

\* The offset where the last located start code of s begins, or 0 when s has
\* none; from is the end of a located start code that begins at cur.
RECURSIVE LastBeginFrom(_, _, _)
LastBeginFrom(s, from, cur) ==
  LET nx == Located(s, from)
  IN IF ~nx.found THEN cur ELSE LastBeginFrom(s, nx.end, nx.begin)

KeepFrom(s) ==
  IF ~Located(s, 0).found THEN 0
  ELSE LastBeginFrom(s, Located(s, 0).end, Located(s, 0).begin)

\* buf has no located start code, or one at offset 0 and none after it.
AtMostOneStartCodeAtFront(buf) ==
  LET sc == Located(buf, 0)
  IN \/ ~sc.found
     \/ sc.begin = 0 /\ ~Located(buf, sc.end).found

\* C19: in Annex-B mode, between socket reads, the accumulator has no
\* located start code, or begins with one at offset 0 and has no second one
\* after it; it holds exactly the received bytes from the beginning of the
\* last located start code on (all received bytes when there is none), and
\* every NAL handed over ends at or before that offset, so no byte of it is
\* left in the accumulator.
C19_ConsumedBytesEvicted ==
  wpc \in {"ab_loop", "ab_recv", "exit"}
  => /\ AtMostOneStartCodeAtFront(stream_buf)
     /\ stream_buf = Erase(received, KeepFrom(received))
     /\ \A i \in 1..Len(AnnexBSpans(received)) :
          AnnexBSpans(received)[i].start
            + Len(AnnexBSpans(received)[i].bytes) <= KeepFrom(received)
     /\ HandedNals = NonEmpty(AnnexBNals(received))

\* After a read that completed an IDR slice the accumulator begins with the
\* 4-byte start code that ended it.
C19_Witness ==
  /\ wpc = "ab_loop"
  /\ received = <<0, 0, 1, 101, 0, 0, 0, 1, 1>>
  /\ stream_buf = <<0, 0, 0, 1, 1>>
  /\ Len(emitted) = 1

\* What a worker whose reads are all satisfied in full makes of the bytes
\* received on this connection.
AvccFull ==
  AvccFullReads(received,
                [access_unit |-> <<>>, has_idr |-> FALSE, out |-> <<>>])

InAvccLoop ==
  wpc \in {"av_outer", "av_len_loop", "av_len_recv", "av_len_post",
           "av_pay_loop", "av_pay_recv", "av_pay_post", "exit"}

InPayloadLoop == wpc \in {"av_pay_loop", "av_pay_recv"}

\* The assembler once the record in hand, if any, has been handed over.
AssemblerNext ==
  IF RecordInHand
  THEN emit_access_unit([access_unit |-> access_unit, has_idr |-> has_idr,
                         out |-> emitted], nal, isVclNal(nal))
  ELSE [access_unit |-> access_unit, has_idr |-> has_idr, out |-> emitted]

\* C20: in AVCC mode, however the bytes received were split into reads, the
\* access units delivered and the unit being assembled are those of a worker
\* whose reads are all satisfied in full; the bytes of the record being read
\* are exactly the length bytes and payload bytes read so far; the payload is
\* read only with all 4 length bytes and never beyond the decoded length; and
\* the worker leaves the loop only after a failed read or an invalid length,
\* never because a read came back short.
C20_AvccPartialReads ==
  (framing_ = "Avcc" /\ InAvccLoop)
  => /\ AssemblerNext.out = AvccFull.asm.out
     /\ AssemblerNext.access_unit = AvccFull.asm.access_unit
     /\ (~RecordInHand /\ wpc # "av_outer") => AvccFull.rest = lenBuf \o nal
     /\ (RecordInHand \/ wpc = "av_outer") => AvccFull.rest = <<>>
     /\ Len(lenBuf) <= 4
     /\ InPayloadLoop => /\ Len(lenBuf) = 4
                         /\ nalLen = U32(lenBuf)
                         /\ FilledLess(Len(nal), nalLen)
     /\ (wpc = "exit" /\ ~read_failed)
        => Len(lenBuf) = 4 /\ ~LenBytesValid(lenBuf)

\* One record delivered; of the next, the length arrived whole and the
\* payload has arrived by half.
C20_Witness ==
  /\ framing_ = "Avcc"
  /\ received = <<0, 0, 0, 1, 101, 0, 0, 0, 2, 101>>
  /\ wpc = "av_pay_loop"
  /\ nal = <<101>>
  /\ Len(emitted) = 1

\* The worker is in a recv call, or about to make the one it has decided on.
ReadPc == wpc \in {"ab_recv", "av_len_recv", "av_pay_recv"}

StopWaiting == InStopJoin /\ ~aborted

ReadReturnsUnderStop == StopWaiting /\ ReadPc /\ wpc' # wpc

NoReadUnderStop == StopWaiting /\ ~ReadPc

StopReturns == InStopJoin /\ ~InStopJoin'

\* No recv blocks for ever.
EveryRecvReturns == ReadPc ~> ~ReadPc

\* C21: while stop() (or the destructor) waits in join, running_ is false;
\* a worker that is not in a read starts none, and a worker that is in a read
\* stays there until that read returns and then starts no other, so at most
\* one read is made after the flag was cleared; stop() returns only when the
\* worker has returned; and in every run in which each recv eventually
\* returns, every stop() eventually returns.
C21_StopWaitsForRead ==
  /\ [](StopWaiting => ~running_)
  /\ [][NoReadUnderStop => ~ReadPc']_vars
  /\ [][ReadReturnsUnderStop => ~ReadPc']_vars
  /\ [][StopReturns => wpc = "done"]_vars
  /\ (EveryRecvReturns => (StopWaiting ~> ~InStopJoin))

\* stop() waits in join while the worker, one unit delivered, is in the recv
\* for a length that the peer has not sent.
C21_Witness ==
  /\ ctl = "stop_join"
  /\ wpc = "av_len_recv"
  /\ wire = <<>>
  /\ Len(emitted) = 1

InParseLoop ==
  wpc \in {"ab_loop", "ab_recv", "av_outer", "av_len_loop", "av_len_recv",
           "av_len_post", "av_pay_loop", "av_pay_recv", "av_pay_post"}

WorkerLeaves == wpc = "exit" /\ wpc' # wpc

SocketClosedNow == fd = "open" /\ fd' = "closed" /\ wpc' = "done"

SocketCloses == fd # "closed" /\ fd' = "closed"

\* C22: a worker that connected holds an open socket exactly while it is in
\* a parse loop or on its way out of one; whichever way it left the loop
\* (stop request, end of stream, read error, invalid AVCC length) it closes
\* the socket in the step in which it returns, so a worker that has returned
\* after connecting has a closed socket; the socket is closed only by that
\* step and only while open, hence once; and a read is made only on an open
\* socket.
C22_SocketClosedOnExit ==
  /\ [](fd = "open" <=> (InParseLoop \/ wpc = "exit"))
  /\ []((wpc = "done" /\ reachable) => fd = "closed")
  /\ [](fd = "closed" => wpc = "done")
  /\ [][WorkerLeaves => SocketClosedNow]_vars
  /\ [][SocketCloses => WorkerLeaves]_vars
  /\ [][received' # received => fd = "open" \/ wpc = "connect"]_vars

\* A worker that left the AVCC loop on an invalid length, with no stop() and
\* no failed read, has returned with its socket closed.
C22_Witness ==
  /\ framing_ = "Avcc"
  /\ calls = <<"start">>
  /\ ~read_failed
  /\ Len(emitted) = 1
  /\ wpc = "done"
  /\ fd = "closed"

StartCalled == calls' = Append(calls, "start")

StopCalled ==
  calls' = Append(calls, "stop") \/ calls' = Append(calls, "dtor")

RunningSet == ~running_ /\ running_'

NoCall == calls' = calls

\* C23: running_ goes from false to true only in a step of start(), and
\* start() always leaves it true; a step of stop() or of the destructor
\* leaves it false; every other step (the worker's, the peer's, the rest of
\* start() and stop()) leaves it as it was or clears it.  So from one start()
\* to the next it falls at most once and does not rise again.
C23_OnlyStartSetsRunning ==
  /\ [][RunningSet => StartCalled]_vars
  /\ [][StartCalled => running_']_vars
  /\ [][StopCalled => ~running_']_vars
  /\ [][NoCall => (running_' => running_)]_vars

\* start(), stop(), start(): the flag, cleared by stop(), is true again and
\* the second worker has connected.
C23_Witness ==
  /\ calls = <<"start", "stop", "start">>
  /\ running_
  /\ launched = 2
  /\ fd = "open"

\* C24: from a state in which the latest call, stop() or the destructor, has
\* returned, no step invokes the callback (the callback is invoked again only
\* after a later start()); the worker is then not alive.  Callbacks made
\* between stop()'s store and its return are possible: see C24_Witness.
C24_NoCallbackAfterStop ==
  /\ [][StopReturned => emitted' = emitted]_vars
  /\ [](StopReturned => wpc \in {"idle", "done"})
  /\ [](stop_emitted <= Len(emitted))

\* stop() has returned, and the worker delivered an access unit after stop()
\* had cleared the flag.
C24_Witness ==
  /\ calls = <<"start", "stop">>
  /\ StopReturned
  /\ Len(emitted) > stop_emitted

\* The NALs the peer has framed so far on this connection: every one of them
\* is delimited once a further start code and a byte are put after the
\* stream.
SentNals == AnnexBNals(received \o wire \o <<0, 0, 1, 0>>)

\* The AVCC framing of NALs shorter than 256 bytes.
RECURSIVE AvccFrame(_)
AvccFrame(ns) ==
  IF ns = <<>> THEN <<>>
  ELSE <<0, 0, 0, Len(ns[1])>> \o ns[1] \o AvccFrame(Tail(ns))

\* What the AVCC branch makes of the NALs ns in AVCC framing.
AvccRun(ns) ==
  AvccFullReads(AvccFrame(ns),
                [access_unit |-> <<>>, has_idr |-> FALSE, out |-> <<>>]).asm

Front(ns) == Take(ns, Len(ns) - 1)

AnnexBReading == framing_ = "AnnexB" /\ wpc \in {"ab_loop", "ab_recv", "exit"}

\* C25: while an Annex-B worker reads a stream of framed NALs (3-byte and
\* 4-byte start codes mixed), the access units it has delivered are a prefix
\* of those the AVCC branch delivers for the same NALs in AVCC framing, bytes
\* and is_keyframe alike; once it has read all the peer sent, it has done
\* exactly what the AVCC branch does for all NALs but the last, which awaits
\* its following start code.
C25_AnnexBPrefixOfAvcc ==
  AnnexBReading
  => /\ IsPrefix(emitted, AvccRun(SentNals).out)
     /\ wire = <<>>
        => /\ emitted = AvccRun(Front(SentNals)).out
           /\ access_unit = AvccRun(Front(SentNals)).access_unit

\* SPS, IDR slice and a non-IDR slice behind start codes of both sizes, all
\* read: one unit delivered where the AVCC branch delivers two.
C25_Witness ==
  /\ AnnexBReading
  /\ received = <<0, 0, 1, 103, 0, 0, 0, 1, 101, 0, 0, 1, 65>>
  /\ wire = <<>>
  /\ SentNals = <<(<<103>>), (<<101>>), (<<65>>)>>
  /\ Len(emitted) = 1
  /\ Len(AvccRun(SentNals).out) = 2

====
